---- MODULE Spec2Model ----
(***************************************************************************)
(* A model of RetroArch's content playlist (playlist.c): a bounded,        *)
(* most-recently-used ordered store of entries, loaded from a legacy       *)
(* six-lines-per-entry file or from a JSON file decoded by SAX callbacks.  *)
(*                                                                         *)
(* C strings are sequences of one-character strings; the null pointer is   *)
(* the one-element sequence NULL, which no text equals.                    *)
(***************************************************************************)
EXTENDS Integers, Sequences, FiniteSets, TLC

(* ------------------------------------------------------------------ *)
(* Bounds of the model                                                 *)
(* ------------------------------------------------------------------ *)

\* Largest capacity a playlist is created with.
MaxCap == 2

\* Largest number of playlist_update calls in one run.
MaxUpdates == 1

\* Deepest nesting of arrays and objects in a JSON file.
MaxDepth == 3

\* Playlists allocated through playlist_init_cached in one behaviour.
MaxStores == 4

(* ------------------------------------------------------------------ *)
(* Strings                                                             *)
(* ------------------------------------------------------------------ *)

NULL == <<"NULL">>

\* The caller of playlist_update passes the very pointer the entry stores.
ALIAS == <<"ALIAS">>

EMPTY == <<>>

string_is_empty(s) == s = NULL \/ s = EMPTY

string_is_equal(a, b) == a # NULL /\ b # NULL /\ a = b

\* The characters the model's texts are made of, in ASCII order.
Alphabet == <<"\n", "\r", ".", "/", "1", "A", "B", "F", "G", "X", "Y",
              "a", "b", "c", "d", "f", "g", "o", "x", "y">>

CharCode(c) == CHOOSE k \in 1..Len(Alphabet) : Alphabet[k] = c

tolower(c) ==
    CASE c = "A" -> "a"
      [] c = "B" -> "b"
      [] c = "F" -> "f"
      [] c = "G" -> "g"
      [] c = "X" -> "x"
      [] c = "Y" -> "y"
      [] OTHER -> c

string_is_equal_noncase(a, b) ==
    /\ a # NULL
    /\ b # NULL
    /\ Len(a) = Len(b)
    /\ \A k \in 1..Len(a) : tolower(a[k]) = tolower(b[k])

\* Index of the last occurrence of character c in s, 0 when there is none.
LastIndexOf(s, c) ==
    LET hits == {k \in 1..Len(s) : s[k] = c}
    IN  IF hits = {} THEN 0 ELSE CHOOSE k \in hits : \A j \in hits : j <= k

\* The part of a path after its last slash.
path_basename(p) ==
    LET k == LastIndexOf(p, "/")
    IN  SubSeq(p, k + 1, Len(p))

\* The base name with everything from its last dot on removed.
fill_pathname_base_noext(p) ==
    LET b == path_basename(p)
        k == LastIndexOf(b, ".")
    IN  IF k = 0 THEN b ELSE SubSeq(b, 1, k - 1)

(* ------------------------------------------------------------------ *)
(* Texts used as inputs                                                *)
(* ------------------------------------------------------------------ *)

PathA  == <<"a">>
PathAU == <<"A">>
PathB  == <<"b">>
CoreF  == <<"/", "f", ".", "o">>
CoreFU == <<"/", "F", ".", "o">>
CoreG  == <<"/", "g", ".", "o">>
NameF  == <<"F", "c">>
NameG  == <<"G", "c">>
LabelX == <<"x">>
LabelY == <<"Y">>
Crc1   == <<"1">>
Db1    == <<"d">>

(* ------------------------------------------------------------------ *)
(* struct playlist_entry                                               *)
(* ------------------------------------------------------------------ *)

Fields == {"path", "label", "core_path", "core_name", "db_name", "crc32"}

Entry(path, label, core_path, core_name, crc32, db_name) ==
    [path |-> path, label |-> label, core_path |-> core_path,
     core_name |-> core_name, db_name |-> db_name, crc32 |-> crc32]

\* A slot as calloc leaves it, and as playlist_free_entry leaves it.
NullEntry == Entry(NULL, NULL, NULL, NULL, NULL, NULL)

VARIABLES
    win32,      \* the build defines _WIN32
    pc,         \* "init": no playlist yet; "json": JSON decoding; "ready"
    cap,        \* playlist->cap
    size,       \* playlist->size
    modified,   \* playlist->modified
    entries,    \* playlist->entries, every slot 0..cap-1 (also those >= size)
    oob,        \* a slot outside playlist->entries has been written
    nupdates,   \* playlist_update calls so far
    ctx,        \* the JSONContext of playlist_read_file and the parser's state
    file,       \* the file at conf_path: what is known of its content
    input,      \* the tokens of the file the parser has not yet reported
    out,        \* what the last lookup left in its caller's variables
    cache,      \* playlist_cached and the playlists allocated through it
    lost,       \* a text strdup returned is held by no entry below size
                \* (nor by the entry being decoded) and was not freed
    op          \* the last call: its name, its result and the branch it took

vars == <<win32, pc, cap, size, modified, entries, oob, nupdates, ctx,
          file, input, out, cache, lost, op>>

\* The entry holds a text: one of its six pointers is not NULL.
HoldsText(e) == \E f \in Fields : e[f] # NULL

Op(name, ret, branch) == [name |-> name, ret |-> ret, branch |-> branch]

(* ------------------------------------------------------------------ *)
(* playlist_push                                                       *)
(* ------------------------------------------------------------------ *)

\* A validation that tests the two pointers and not the texts.
PushRejectsNull(core_path, core_name) == core_path = NULL \/ core_name = NULL

\* The flags are computed once, before the core name is derived, and are
\* tested again afterwards without being recomputed.
PushRejects(core_path, core_name) ==
    LET core_path_empty == string_is_empty(core_path)
        core_name_empty == string_is_empty(core_name)
    IN  /\ core_path_empty \/ core_name_empty
        /\ core_path_empty \/ core_name_empty

\* The local core_name once the validation block has run.
PushCoreName(core_path, core_name) ==
    LET core_path_empty == string_is_empty(core_path)
        core_name_empty == string_is_empty(core_name)
    IN  IF (core_path_empty \/ core_name_empty)
           /\ core_name_empty /\ ~core_path_empty
        THEN fill_pathname_base_noext(core_path)
        ELSE core_name

\* Which of the two flags made the validation fail.
PushRejectCause(core_path, core_name) ==
    IF ~string_is_empty(core_path) THEN "reject_name"
    ELSE IF ~string_is_empty(core_name) THEN "reject_path"
    ELSE "reject_both"

\* The local path: an empty path is pushed as a null one.
PushPath(path) == IF string_is_empty(path) THEN NULL ELSE path

\* A comparison of the paths that is exact on every build.
equal_path_exact(win, path, epath) ==
    \/ path = NULL /\ epath = NULL
    \/ path # NULL /\ epath # NULL /\ string_is_equal(path, epath)

equal_path(win, path, epath) ==
    \/ path = NULL /\ epath = NULL
    \/ /\ path # NULL
       /\ epath # NULL
       /\ IF win THEN string_is_equal_noncase(path, epath)
                 ELSE string_is_equal(path, epath)

\* The entry at i is the one being pushed: neither "continue" is taken.
PushSame(win, e, path, core_path) ==
    /\ equal_path(win, path, e.path)
    /\ string_is_equal(e.core_path, core_path)

\* A search loop that finds no entry.
PushHitsNone(win, ents, sz, path, core_path) == {}

\* Indices at which the search loop stops.
PushHits(win, ents, sz, path, core_path) ==
    {i \in 0..(sz - 1) : PushSame(win, ents[i], path, core_path)}

Min(S) == CHOOSE x \in S : \A y \in S : x <= y

\* A search loop without the test for the top entry.
PushIsTopNever(hits) == FALSE

\* "if (i == 0) return false;": the loop stops at the top entry.
PushIsTop(hits) == hits # {} /\ Min(hits) = 0

\* "Seen it before, bump to top": tmp, memmove of i entries, entries[0] = tmp.
BumpToTop(ents, i) ==
    [j \in DOMAIN ents |->
        IF j = 0 THEN ents[i]
        ELSE IF j <= i THEN ents[j - 1]
        ELSE ents[j]]

\* playlist_free_entry on the slot at index i.
FreeEntryAt(ents, i) == [ents EXCEPT ![i] = NullEntry]

\* memmove(entries + 1, entries, (cap - 1) * sizeof(entry)).
ShiftDown(ents, c) ==
    [j \in DOMAIN ents |->
        IF 1 <= j /\ j <= c - 1 THEN ents[j - 1] ELSE ents[j]]

\* strdup of a non-empty text, a null pointer otherwise.
DupNonEmpty(s) == IF string_is_empty(s) THEN NULL ELSE s

\* The six assignments to entries[0].
PushEntry(path, label, core_path, core_name, crc32, db_name) ==
    Entry(DupNonEmpty(path), DupNonEmpty(label), DupNonEmpty(core_path),
          DupNonEmpty(core_name), DupNonEmpty(crc32), DupNonEmpty(db_name))

\* An eviction that frees the last entry and keeps the size.
EvictSizeKept(sz, c) == sz

\* The store after the eviction of the last entry when the playlist is full.
EvictSize(sz, c) == IF sz = c THEN sz - 1 ELSE sz

EvictEntries(ents, sz, c) ==
    IF sz = c THEN FreeEntryAt(ents, c - 1) ELSE ents

playlist_push(a) ==
    LET core_name == PushCoreName(a.core_path, a.core_name)
        path      == PushPath(a.path)
        hits      == PushHits(win32, entries, size, path, a.core_path)
    IN  /\ pc = "ready"
        /\ IF PushRejects(a.core_path, a.core_name)
           THEN /\ op' = Op("push", FALSE,
                           PushRejectCause(a.core_path, a.core_name))
                /\ UNCHANGED <<size, modified, entries>>
           ELSE IF PushIsTop(hits)
           THEN /\ op' = Op("push", FALSE, "top")
                /\ UNCHANGED <<size, modified, entries>>
           ELSE IF hits # {}
           THEN /\ entries' = BumpToTop(entries, Min(hits))
                /\ modified' = TRUE
                /\ op' = Op("push", TRUE, "bump")
                /\ UNCHANGED size
           ELSE /\ entries' =
                     [ShiftDown(EvictEntries(entries, size, cap), cap)
                        EXCEPT ![0] = PushEntry(path, a.label, a.core_path,
                                                core_name, a.crc32, a.db_name)]
                /\ size' = EvictSize(size, cap) + 1
                /\ modified' = TRUE
                /\ op' = Op("push", TRUE, IF size = cap THEN "evict" ELSE "insert")
        /\ UNCHANGED <<out, cache, file, input, lost, win32, pc, cap, oob, nupdates, ctx>>

(* ------------------------------------------------------------------ *)
(* playlist_update                                                     *)
(* ------------------------------------------------------------------ *)

\* "if (!playlist || idx > playlist->size) return;"
UpdateReturnsEarly(idx, sz) == idx > sz

\* "arg && (arg != entry->field)": a fresh text never is the stored pointer.
UpdateReplaces(arg) == arg # NULL /\ arg # ALIAS

\* An update that takes an empty text for a field not supplied.
UpdateFieldNonEmpty(old, arg) ==
    IF UpdateReplaces(arg) /\ arg # EMPTY THEN arg ELSE old

\* One field after the update: free and strdup when replaced.
UpdateField(old, arg) == IF UpdateReplaces(arg) THEN arg ELSE old

UpdateEntry(e, u) ==
    [f \in Fields |-> UpdateField(e[f], u[f])]

UpdateModifies(u) == \E f \in Fields : UpdateReplaces(u[f])

\* For idx = size the texts strdup returns are stored in the slot above the
\* last entry, which neither playlist_clear nor playlist_free frees.
UpdateLoses(was, idx, sz, u) == was \/ (idx >= sz /\ UpdateModifies(u))

playlist_update(idx, u) ==
    /\ pc = "ready"
    /\ nupdates < MaxUpdates
    /\ nupdates' = nupdates + 1
    /\ op' = Op("update", TRUE,
                IF UpdateReturnsEarly(idx, size) THEN "early"
                ELSE IF idx < size THEN "update" ELSE "stale")
    /\ IF UpdateReturnsEarly(idx, size)
       THEN UNCHANGED <<entries, modified, oob, lost>>
       ELSE /\ modified' = (modified \/ UpdateModifies(u))
            /\ lost' = UpdateLoses(lost, idx, size, u)
            /\ IF idx < cap
               THEN /\ entries' = [entries EXCEPT ![idx] = UpdateEntry(@, u)]
                    /\ UNCHANGED oob
               ELSE /\ oob' = (oob \/ UpdateModifies(u))
                    /\ UNCHANGED entries
    /\ UNCHANGED <<out, cache, file, input, win32, pc, cap, size, ctx>>

(* ------------------------------------------------------------------ *)
(* playlist_delete_index, playlist_clear, playlist_qsort               *)
(* ------------------------------------------------------------------ *)

\* A delete that moves no entry.
DeleteShiftNone(ents, idx, newsize) == ents

\* memmove(entries + idx, entries + idx + 1, (size - idx) entries), size
\* being the decremented one; the slot at the new size keeps its content.
DeleteShift(ents, idx, newsize) ==
    [j \in DOMAIN ents |->
        IF idx <= j /\ j < newsize THEN ents[j + 1] ELSE ents[j]]

\* No free is called: the pointers of the entry at idx are overwritten by
\* the memmove, or stay in the slot at the new size for the last entry.
DeleteLoses(was, ents, idx) == was \/ HoldsText(ents[idx])

playlist_delete_index(idx) ==
    /\ pc = "ready"
    /\ idx < size
    /\ size' = size - 1
    /\ entries' = DeleteShift(entries, idx, size - 1)
    /\ modified' = TRUE
    /\ lost' = DeleteLoses(lost, entries, idx)
    /\ op' = Op("delete", TRUE, "delete")
    /\ UNCHANGED <<out, cache, file, input, win32, pc, cap, oob, nupdates, ctx>>

\* A clear that releases nothing.
ClearEntriesNone(ents, sz) == ents

\* playlist_free_entry for every entry below size: its texts are freed and
\* its pointers set to NULL.
ClearEntries(ents, sz) ==
    [j \in DOMAIN ents |-> IF j < sz THEN NullEntry ELSE ents[j]]

\* A clear that marks the playlist as modified.
ClearModifiedSet(mod) == TRUE

\* playlist_clear assigns nothing to playlist->modified.
ClearModified(mod) == mod

playlist_clear ==
    /\ pc = "ready"
    /\ entries' = ClearEntries(entries, size)
    /\ size' = 0
    /\ modified' = ClearModified(modified)
    /\ op' = Op("clear", TRUE, "clear")
    /\ UNCHANGED <<out, cache, file, input, lost, win32, pc, cap, oob, nupdates, ctx>>

\* strcasecmp: the sign of the first difference of the lower-cased texts.
RECURSIVE strcasecmp(_, _)
strcasecmp(a, b) ==
    IF a = EMPTY /\ b = EMPTY THEN 0
    ELSE IF a = EMPTY THEN -1
    ELSE IF b = EMPTY THEN 1
    ELSE LET ca == CharCode(tolower(a[1]))
             cb == CharCode(tolower(b[1]))
         IN  IF ca # cb THEN ca - cb ELSE strcasecmp(Tail(a), Tail(b))

playlist_qsort_func(a, b) ==
    IF a.label = NULL \/ b.label = NULL THEN 0
    ELSE strcasecmp(a.label, b.label)

IndexPermutations(n) ==
    {p \in [0..(n - 1) -> 0..(n - 1)] :
        \A i, j \in 0..(n - 1) : i # j => p[i] # p[j]}

\* qsort promises an order only for a comparator that is a consistent
\* ordering, which this one is when no compared label is null; it promises
\* no stability.  Otherwise any arrangement of the elements may result.
QsortResults(ents, sz) ==
    LET consistent == \A i \in 0..(sz - 1) : ents[i].label # NULL
        arranged(p) ==
            [j \in DOMAIN ents |-> IF j < sz THEN ents[p[j]] ELSE ents[j]]
        sorted(r) ==
            \A i \in 0..(sz - 2) : playlist_qsort_func(r[i], r[i + 1]) <= 0
    IN  {r \in {arranged(p) : p \in IndexPermutations(sz)} :
            consistent => sorted(r)}

playlist_qsort ==
    /\ pc = "ready"
    /\ entries' \in QsortResults(entries, size)
    /\ op' = Op("sort", TRUE, "sort")
    /\ UNCHANGED <<out, cache, file, input, lost, win32, pc, cap, size, modified, oob, nupdates, ctx>>

(* ------------------------------------------------------------------ *)
(* playlist_get_index, playlist_get_index_by_path,                     *)
(* playlist_entry_exists                                               *)
(* ------------------------------------------------------------------ *)

\* The caller's six variables before a lookup writes to them.
UNSET == <<"UNSET">>

Unset == Entry(UNSET, UNSET, UNSET, UNSET, UNSET, UNSET)

\* What lies behind the last slot of playlist->entries.
Garbage == <<"GARBAGE">>

\* "playlist->entries[idx]" as playlist_get_index reads it: the slot,
\* whether below size or not; behind the array the read has no defined
\* result, the pointers it yields are null or point anywhere.
GetIndexReads(ents, c, idx) ==
    IF idx < c THEN {ents[idx]}
    ELSE {NullEntry,
          Entry(Garbage, Garbage, Garbage, Garbage, Garbage, Garbage)}

playlist_get_index(idx) ==
    /\ pc = "ready"
    /\ out' \in GetIndexReads(entries, cap, idx)
    /\ op' = Op("get_index", TRUE, IF idx < cap THEN "slot" ELSE "outside")
    /\ UNCHANGED <<cache, file, input, lost, win32, pc, cap, size, modified, entries,
                   oob, nupdates, ctx>>

\* A loop without its "break": the last match is the one that stays.
playlist_get_index_by_path_last(ents, sz, search_path) ==
    LET found == {i \in 0..(sz - 1) :
                     string_is_equal(ents[i].path, search_path)}
    IN  IF found = {} THEN -1 ELSE CHOOSE i \in found : \A j \in found : j <= i

\* The index the loop of playlist_get_index_by_path stops at, -1 when it
\* runs to the end and leaves the caller's pointers as they were.
playlist_get_index_by_path(ents, sz, search_path) ==
    LET found == {i \in 0..(sz - 1) :
                     string_is_equal(ents[i].path, search_path)}
    IN  IF found = {} THEN -1 ELSE Min(found)

\* The call: the caller's variables are unset before it.
GetIndexByPath(search_path) ==
    /\ pc = "ready"
    /\ LET i == playlist_get_index_by_path(entries, size, search_path)
       IN  /\ out' = IF i = -1 THEN Unset ELSE entries[i]
           /\ op' = Op("get_index_by_path", i # -1,
                       IF i = -1 THEN "none" ELSE "found")
    /\ UNCHANGED <<cache, file, input, lost, win32, pc, cap, size, modified, entries,
                   oob, nupdates, ctx>>

\* A search that also looks at the slots at and above size.
playlist_entry_exists_in_slots(ents, sz, path) ==
    \E i \in DOMAIN ents : string_is_equal(ents[i].path, path)

playlist_entry_exists(ents, sz, path) ==
    \E i \in 0..(sz - 1) : string_is_equal(ents[i].path, path)

\* The call; the crc32 argument is not read.
EntryExists(path, crc32) ==
    /\ pc = "ready"
    /\ op' = Op("entry_exists", playlist_entry_exists(entries, size, path),
                "exists")
    /\ UNCHANGED <<out, cache, file, input, lost, win32, pc, cap, size, modified,
                   entries, oob, nupdates, ctx>>

(* ------------------------------------------------------------------ *)
(* playlist_init and playlist_read_file: format detection, legacy      *)
(* ------------------------------------------------------------------ *)

PLAYLIST_ENTRIES == 6

\* Size of the probe playlist_read_file reads to detect the format.
ProbeBytes == 15

\* A text file is the sequence of its lines, each without its "\n".
RECURSIVE FileBytes(_)
FileBytes(lines) ==
    IF lines = <<>> THEN 0 ELSE Len(Head(lines)) + 1 + FileBytes(Tail(lines))

\* "char buf[PLAYLIST_ENTRIES][1024]": the size of one line buffer.
BufSize == 1024

\* What successive calls of filestream_gets(file, buf, BufSize) return for
\* one line of the file (text, with its "\n"): at most BufSize - 1 bytes a
\* call, the rest of the line being left to the next call.
GetsPieces(text) ==
    LET most == BufSize - 1
        n    == (Len(text) + most - 1) \div most
    IN  [k \in 1..n |->
            SubSeq(text, (k - 1) * most + 1,
                   IF k * most < Len(text) THEN k * most ELSE Len(text))]

\* The buffers the calls of filestream_gets fill, in their order, for a
\* file of these lines.
RECURSIVE Buffers(_)
Buffers(lines) ==
    IF lines = <<>> THEN <<>>
    ELSE GetsPieces(Head(lines) \o <<"\n">>) \o Buffers(Tail(lines))

\* The buffer as the loop leaves it in buf[i]: cut at the last "\r" if
\* there is one, otherwise at the last "\n".
LegacyStrip(line) ==
    LET r == LastIndexOf(line, "\r")
        n == LastIndexOf(line, "\n")
    IN  IF r # 0 THEN SubSeq(line, 1, r - 1)
        ELSE IF n # 0 THEN SubSeq(line, 1, n - 1)
        ELSE line

\* The entry the legacy loop stores from the six buffers.
LegacyEntry(buf) ==
    Entry(IF buf[1] # EMPTY THEN buf[1] ELSE NULL,
          IF buf[2] # EMPTY THEN buf[2] ELSE NULL,
          buf[3],
          buf[4],
          IF buf[5] # EMPTY THEN buf[5] ELSE NULL,
          IF buf[6] # EMPTY THEN buf[6] ELSE NULL)

\* "if (!*buf[2] || !*buf[3]) continue;" (buf is indexed from 0 in C).
LegacySkips(buf) == buf[3] = EMPTY \/ buf[4] = EMPTY

\* The legacy loop over the buffers filestream_gets fills: the store
\* <<entries, size>> once it ends.
RECURSIVE LegacyRead(_, _, _, _)
LegacyRead(lines, ents, sz, c) ==
    IF ~(sz < c) THEN <<ents, sz>>
    ELSE IF Len(lines) < PLAYLIST_ENTRIES THEN <<ents, sz>>
    ELSE LET buf  == [k \in 1..PLAYLIST_ENTRIES |-> LegacyStrip(lines[k])]
             rest == SubSeq(lines, PLAYLIST_ENTRIES + 1, Len(lines))
         IN  IF LegacySkips(buf)
             THEN LegacyRead(rest, ents, sz, c)
             ELSE LegacyRead(rest, [ents EXCEPT ![sz] = LegacyEntry(buf)],
                             sz + 1, c)

(* ------------------------------------------------------------------ *)
(* The file at conf_path                                               *)
(* ------------------------------------------------------------------ *)

\* A file is the sequence of the chunks of bytes written to it, one chunk
\* for each call of the JSON writer and one for each line of the legacy
\* format.  known = FALSE: a file of any content (one that this playlist
\* has not written, or one left by a write that failed).  codec and of
\* record which encoder wrote the file and from which records; no code
\* reads them.
AnyFile == [known |-> FALSE, chunks |-> <<>>, codec |-> "none", of |-> <<>>]

\* The parser reports the tokens of a known file in their order; for a file
\* of any content it may report whatever the grammar allows.
AnyInput == <<[t |-> "any", v |-> EMPTY]>>

RECURSIVE Flatten(_)
Flatten(chunks) ==
    IF chunks = <<>> THEN <<>> ELSE Head(chunks) \o Flatten(Tail(chunks))

\* What "filestream_read(file, buf, 15)" puts into buf; no chunk is empty,
\* so the first 15 chunks hold the first 15 bytes.
Probe(chunks) ==
    LET first == SubSeq(chunks, 1, IF Len(chunks) < ProbeBytes
                                   THEN Len(chunks) ELSE ProbeBytes)
        bytes == Flatten(first)
    IN  SubSeq(bytes, 1, IF Len(bytes) < ProbeBytes THEN Len(bytes)
                         ELSE ProbeBytes)

\* The literal the probe is compared with.
JsonOpening ==
    <<"{", "\n", " ", " ", "\"", "v", "e", "r", "s", "i", "o", "n", "\"",
      ":", " ">>

\* A detection that takes every file for a JSON file.
NewFormatAlways(probe) == TRUE

\* new_format after the detection, for a probe of at least one byte.
NewFormat(probe) ==
    IF Len(probe) = ProbeBytes THEN string_is_equal(probe, JsonOpening)
    ELSE TRUE

\* The lines of a text file, each with its "\n".
LineChunks(lines) == [k \in 1..Len(lines) |-> lines[k] \o <<"\n">>]

\* The lines filestream_gets reads from a file written line by line.
FileLines(chunks) ==
    [k \in 1..Len(chunks) |-> SubSeq(chunks[k], 1, Len(chunks[k]) - 1)]

\* The chunk starts a token that is reported as an event.
IsEvent(c) == c[1] \in {"{", "}", "[", "]", "\""}

\* The chunk is white space, a comma or a colon.
IsSeparator(c) == c[1] \in {" ", "\n", "\r", ",", ":"}

Token(c) ==
    IF c[1] = "\"" THEN [t |-> "s", v |-> SubSeq(c, 2, Len(c) - 1)]
    ELSE [t |-> c[1], v |-> EMPTY]

\* The tokens the parser finds in the chunks: white space, commas and
\* colons carry no event, a chunk that starts no JSON token is a syntax
\* error and ends the parse.
Lex(chunks) ==
    LET bad == {k \in 1..Len(chunks) :
                   ~IsEvent(chunks[k]) /\ ~IsSeparator(chunks[k])}
        good == IF bad = {} THEN chunks
                ELSE SubSeq(chunks, 1, Min(bad) - 1)
        events == SelectSeq(good, IsEvent)
    IN  [k \in 1..Len(events) |-> Token(events[k])]

\* The next token of the input is of kind t.
Feeds(t) == input = AnyInput \/ (input # <<>> /\ Head(input).t = t)

\* The next token of the input is the string v.
FeedsText(v) ==
    input = AnyInput \/ (input # <<>> /\ Head(input) = [t |-> "s", v |-> v])

\* The strings a known file offers next.
FileTexts ==
    IF input # AnyInput /\ input # <<>> /\ Head(input).t = "s"
    THEN {Head(input).v} ELSE {}

Rest == IF input = AnyInput THEN AnyInput ELSE Tail(input)

\* The JSONContext before the first parser event.  stack, lex and bytes are
\* the parser's own state: the open containers ("O" and "A" once they hold
\* an element), what the grammar allows next, and, for a file shorter than
\* the probe, the bytes consumed; key says a member name awaits its value,
\* items_key that it is the name items in the top-level object, and an
\* array that is the value of such a member is "i" ("I") on the stack.
NoContext ==
    [stack |-> <<>>, lex |-> "idle", bytes |-> 0,
     array_depth |-> 0, object_depth |-> 0, in_items |-> FALSE,
     key |-> FALSE, items_key |-> FALSE,
     current_meta_string |-> NULL, meta_freed |-> FALSE,
     current_entry |-> -1, current_entry_val |-> "none"]

\* A load that takes a file it cannot open for an error.
NoFileReturnsError == FALSE

\* "if (!file) return true;", and the same for a probe of 0 bytes.
NoFileReturns == TRUE

\* filestream_open fails, or the probe reads 0 bytes: an empty playlist.
InitNoFile ==
    /\ pc = "init"
    /\ pc' = "ready"
    /\ op' = Op("init", NoFileReturns, "nofile")
    /\ UNCHANGED <<out, cache, file, input, lost, win32, cap, size, modified, entries, oob, nupdates, ctx>>

\* A file of at least 15 bytes that does not start with the JSON header.
InitLegacy(lines) ==
    /\ pc = "init"
    /\ ~NewFormat(Probe(IF file.known THEN file.chunks
                         ELSE LineChunks(lines)))
    /\ file.known => lines = FileLines(file.chunks)
    /\ FileBytes(lines) >= ProbeBytes
    /\ LET r == LegacyRead(Buffers(lines), entries, 0, cap)
       IN  /\ entries' = r[1]
           /\ size' = r[2]
    /\ pc' = "ready"
    /\ op' = Op("init", TRUE, "legacy")
    /\ UNCHANGED <<out, cache, file, input, lost, win32, cap, modified, oob, nupdates, ctx>>

\* A file that starts with the 15 header bytes (short = FALSE), or one of 1
\* to 14 bytes, for which new_format keeps its initial value true.
InitJson(short) ==
    /\ pc = "init"
    /\ file.known =>
          LET probe == Probe(file.chunks)
          IN  /\ Len(probe) > 0
              /\ NewFormat(probe)
              /\ short = (Len(probe) < ProbeBytes)
    /\ input' = IF file.known THEN Lex(file.chunks) ELSE AnyInput
    /\ pc' = "json"
    /\ ctx' = [NoContext EXCEPT !.lex = IF short THEN "free" ELSE "hdr0",
                                !.bytes = IF short THEN 0 ELSE ProbeBytes]
    /\ op' = Op("init", TRUE, IF short THEN "short" ELSE "json")
    /\ UNCHANGED <<out, cache, file, lost, win32, cap, size, modified, entries, oob, nupdates>>

(* ------------------------------------------------------------------ *)
(* The JSON parser: which event may come next                          *)
(* ------------------------------------------------------------------ *)

ItemsName    == <<"i", "t", "e", "m", "s">>
VersionName  == <<"v", "e", "r", "s", "i", "o", "n">>
PathName     == <<"p", "a", "t", "h">>
LabelName    == <<"l", "a", "b", "e", "l">>
CorePathName == <<"c", "o", "r", "e", "_", "p", "a", "t", "h">>
CoreNameName == <<"c", "o", "r", "e", "_", "n", "a", "m", "e">>
Crc32Name    == <<"c", "r", "c", "3", "2">>
DbNameName   == <<"d", "b", "_", "n", "a", "m", "e">>

IsObj(x) == x \in {"o", "O"}
IsArr(x) == x \in {"a", "A", "i", "I"}

\* The array is the value of a member named items of the top-level object.
IsItems(x) == x \in {"i", "I"}
Top(c) == IF c.stack = <<>> THEN "none" ELSE c.stack[Len(c.stack)]

\* A value (scalar, "[" or "{") may start here.
CanValue(c) ==
    /\ c.lex = "free"
    /\ \/ c.stack = <<>>
       \/ IsArr(Top(c))
       \/ IsObj(Top(c)) /\ c.key

\* A member name may come here.
CanMember(c) ==
    /\ c.lex = "free"
    /\ c.stack # <<>>
    /\ IsObj(Top(c))
    /\ ~c.key

\* The comma that separates this token from the previous element.
Comma(c) ==
    IF c.stack # <<>> /\ Top(c) \in {"O", "A", "I"} /\ ~c.key THEN 1 ELSE 0

\* A file shorter than the probe has at most ProbeBytes - 1 bytes.
Fits(c, n) == c.bytes = ProbeBytes \/ c.bytes + n < ProbeBytes

Spend(c, n) == IF c.bytes = ProbeBytes THEN ProbeBytes ELSE c.bytes + n

\* The container stack once its innermost container holds an element.
Marked(c, stack) ==
    IF stack = <<>> \/ c.bytes = ProbeBytes THEN stack
    ELSE [stack EXCEPT ![Len(stack)] = IF IsObj(@) THEN "O"
                                       ELSE IF IsItems(@) THEN "I" ELSE "A"]

\* The parser's state after a complete value.
AfterValue(c, stack, n) ==
    [c EXCEPT !.stack = Marked(c, stack),
              !.key = FALSE,
              !.items_key = FALSE,
              !.bytes = Spend(c, n),
              !.lex = IF stack = <<>> THEN "done" ELSE "free"]

Pop(stack) == SubSeq(stack, 1, Len(stack) - 1)

\* A load that reports the failure of its decoder.
LoadReturnsError(branch) == branch = "end"

\* "end: filestream_close(file); return true;", and playlist_init returns
\* the playlist whatever playlist_read_file returns.
LoadReturns(branch) == TRUE

\* The texts of an object that has not ended are in the slot at size, which
\* stays above the last entry.
LoadLoses(was, ents, sz, c) == was \/ (sz < c /\ HoldsText(ents[sz]))

\* The load ends: the parser is freed, the file closed, the playlist returned.
LoadEnds(branch) ==
    /\ pc' = "ready"
    /\ ctx' = NoContext
    /\ input' = AnyInput
    /\ lost' = LoadLoses(lost, entries, size, cap)
    /\ op' = Op("init", LoadReturns(branch), branch)

\* The parser stops on a syntax error, on a read failure or at the end of
\* the input; playlist_read_file returns true in each case.
JsonEnd ==
    /\ pc = "json"
    /\ input = AnyInput \/ input = <<>>
    /\ LoadEnds("end")
    /\ UNCHANGED <<out, cache, file, win32, cap, size, modified, entries, oob, nupdates>>

\* A JSONContext that is set up anew for every chunk: what the handlers
\* keep is lost, what the parser keeps is not.
ChunkResets(c) ==
    [NoContext EXCEPT !.stack = c.stack, !.lex = c.lex, !.bytes = c.bytes,
                      !.key = c.key, !.items_key = c.items_key]

\* "JSONContext context" and the parser are created before the loop that
\* reads the chunks: the next chunk finds them as the last one left them.
ChunkKeeps(c) == c

\* One more turn of "while (!filestream_eof(file))": the bytes read so far
\* have been parsed, filestream_read fills the next chunk.  The end of a
\* chunk may lie between two tokens or inside one; the parser reports a
\* token when it has all of it, so the end lies before the next event.
JsonNextChunk ==
    /\ pc = "json"
    /\ op.branch # "chunk"
    /\ input = AnyInput \/ input # <<>>
    /\ ctx' = ChunkKeeps(ctx)
    /\ op' = Op("json", TRUE, "chunk")
    /\ UNCHANGED <<out, cache, file, input, lost, win32, pc, cap, size, modified,
                   entries, oob, nupdates>>

\* A number, a boolean or null: no handler is registered for these.
JsonOtherValue ==
    /\ pc = "json"
    /\ Feeds("n")
    /\ input' = Rest
    /\ CanValue(ctx)
    /\ Fits(ctx, Comma(ctx) + 1)
    /\ ctx' = AfterValue(ctx, ctx.stack, Comma(ctx) + 1)
    /\ op' = Op("json", TRUE, "event")
    /\ UNCHANGED <<out, cache, file, lost, win32, pc, cap, size, modified, entries, oob, nupdates>>

(* ------------------------------------------------------------------ *)
(* The JSON handlers                                                   *)
(* ------------------------------------------------------------------ *)

\* string_is_equal(current_meta_string, "items"); the read of a string that
\* JSONStringHandler has freed may give either answer.
MetaIsItems(c) ==
    IF c.meta_freed THEN BOOLEAN
    ELSE {string_is_equal(c.current_meta_string, ItemsName)}

\* The object that starts is one whose members fill an entry.
InEntry(c) == c.in_items /\ c.object_depth = 2 /\ c.array_depth = 1

\* A handler that reserves a slot whatever the size is.
StartObjectAbortsNever(c, sz, cp) == FALSE

StartObjectAborts(c, sz, cp) ==
    /\ c.in_items
    /\ c.object_depth + 1 = 2
    /\ c.array_depth = 1
    /\ ~(sz < cp)

JSONStartObjectHandler ==
    /\ pc = "json"
    /\ Feeds("{")
    /\ ctx.lex = "hdr0" \/ CanValue(ctx)
    /\ Len(ctx.stack) < MaxDepth
    /\ Fits(ctx, Comma(ctx) + 1)
    /\ IF StartObjectAborts(ctx, size, cap)
       THEN LoadEnds("abort_full")
       ELSE /\ ctx' =
                 [ctx EXCEPT
                    !.stack = Append(ctx.stack, "o"),
                    !.key = FALSE,
                    !.items_key = FALSE,
                    !.bytes = Spend(ctx, Comma(ctx) + 1),
                    !.lex = IF ctx.lex = "hdr0" THEN "hdr1" ELSE "free",
                    !.object_depth = @ + 1,
                    !.current_entry =
                        IF ctx.in_items /\ ctx.object_depth + 1 = 2
                           /\ ctx.array_depth = 1
                        THEN size ELSE @]
            /\ input' = Rest
            /\ op' = Op("json", TRUE, "event")
            /\ UNCHANGED <<pc, lost>>
    /\ UNCHANGED <<out, cache, file, win32, cap, size, modified, entries, oob, nupdates>>

\* The size after an end-of-object event.
EndObjectSize(c, sz) == IF InEntry(c) THEN sz + 1 ELSE sz

JSONEndObjectHandler ==
    /\ pc = "json"
    /\ Feeds("}")
    /\ input' = Rest
    /\ CanMember(ctx)
    /\ Fits(ctx, 1)
    /\ size' = EndObjectSize(ctx, size)
    /\ ctx' = [AfterValue(ctx, Pop(ctx.stack), 1)
                 EXCEPT !.object_depth = @ - 1]
    /\ op' = Op("json", TRUE, "event")
    /\ UNCHANGED <<out, cache, file, lost, win32, pc, cap, modified, entries, oob, nupdates>>

JSONStartArrayHandler ==
    /\ pc = "json"
    /\ Feeds("[")
    /\ input' = Rest
    /\ CanValue(ctx)
    /\ Len(ctx.stack) < MaxDepth
    /\ Fits(ctx, Comma(ctx) + 1)
    /\ \E is_items \in MetaIsItems(ctx) :
          ctx' = [ctx EXCEPT
                    !.stack = Append(ctx.stack,
                                     IF ctx.items_key THEN "i" ELSE "a"),
                    !.key = FALSE,
                    !.items_key = FALSE,
                    !.bytes = Spend(ctx, Comma(ctx) + 1),
                    !.array_depth = @ + 1,
                    !.in_items =
                        IF ctx.object_depth = 1 /\ is_items
                           /\ ctx.array_depth + 1 = 1
                        THEN TRUE ELSE @]
    /\ op' = Op("json", TRUE, "event")
    /\ UNCHANGED <<out, cache, file, lost, win32, pc, cap, size, modified, entries, oob, nupdates>>

JSONEndArrayHandler ==
    /\ pc = "json"
    /\ Feeds("]")
    /\ input' = Rest
    /\ ctx.lex = "free"
    /\ ctx.stack # <<>>
    /\ IsArr(Top(ctx))
    /\ Fits(ctx, 1)
    /\ \E is_items \in MetaIsItems(ctx) :
          LET closes == /\ ctx.object_depth = 1
                        /\ ctx.in_items
                        /\ is_items
                        /\ ctx.array_depth - 1 = 0
          IN  ctx' = [AfterValue(ctx, Pop(ctx.stack), 1)
                        EXCEPT
                        !.array_depth = @ - 1,
                        !.current_meta_string = IF closes THEN NULL ELSE @,
                        !.meta_freed = IF closes THEN FALSE ELSE @,
                        !.in_items = IF closes THEN FALSE ELSE @]
    /\ op' = Op("json", TRUE, "event")
    /\ UNCHANGED <<out, cache, file, lost, win32, pc, cap, size, modified, entries, oob, nupdates>>

\* "*pCtx->current_entry_val = strdup(pValue)" is reached.
StringStores(c, v) ==
    /\ InEntry(c)
    /\ c.current_entry_val # "none"
    /\ Len(v) # 0
    /\ ~string_is_empty(v)

\* "free(pCtx->current_meta_string)" is reached; the pointer is kept.
StringFreesMeta(c, v) ==
    /\ ~(c.in_items /\ c.object_depth = 2)
    /\ c.object_depth = 1
    /\ c.array_depth = 0
    /\ c.current_meta_string # NULL
    /\ Len(v) # 0
    /\ ~string_is_empty(v)

\* The assignment overwrites the pointer the field holds and does not free
\* it: the text of an earlier member of the same name.
StringLoses(was, c, ents, v) ==
    was \/ (/\ StringStores(c, v)
            /\ c.current_entry \in DOMAIN ents
            /\ ents[c.current_entry][c.current_entry_val] # NULL)

JSONStringHandler(v) ==
    /\ pc = "json"
    /\ FeedsText(v)
    /\ input' = Rest
    /\ CanValue(ctx)
    /\ Fits(ctx, Comma(ctx) + Len(v) + 2)
    /\ entries' =
          IF StringStores(ctx, v)
          THEN [entries EXCEPT
                  ![ctx.current_entry][ctx.current_entry_val] = v]
          ELSE entries
    /\ lost' = StringLoses(lost, ctx, entries, v)
    /\ ctx' = [AfterValue(ctx, ctx.stack, Comma(ctx) + Len(v) + 2) EXCEPT
                 !.meta_freed = IF StringFreesMeta(ctx, v) THEN TRUE ELSE @,
                 !.current_entry_val = "none"]
    /\ op' = Op("json", TRUE, "event")
    /\ UNCHANGED <<out, cache, file, win32, pc, cap, size, modified, oob, nupdates>>

\* A selection that stores the value of a member it does not know as the
\* path.
MemberFieldOrPath(name) ==
    IF string_is_equal(name, LabelName) THEN "label"
    ELSE IF string_is_equal(name, CorePathName) THEN "core_path"
    ELSE IF string_is_equal(name, CoreNameName) THEN "core_name"
    ELSE IF string_is_equal(name, Crc32Name) THEN "crc32"
    ELSE IF string_is_equal(name, DbNameName) THEN "db_name"
    ELSE "path"

\* The field of the current entry a member name selects.
MemberField(name) ==
    IF string_is_equal(name, PathName) THEN "path"
    ELSE IF string_is_equal(name, LabelName) THEN "label"
    ELSE IF string_is_equal(name, CorePathName) THEN "core_path"
    ELSE IF string_is_equal(name, CoreNameName) THEN "core_name"
    ELSE IF string_is_equal(name, Crc32Name) THEN "crc32"
    ELSE IF string_is_equal(name, DbNameName) THEN "db_name"
    ELSE "none"

\* "something went wrong": a member name while a field is still selected.
MemberAborts(c) == InEntry(c) /\ c.current_entry_val # "none"

JSONObjectMemberHandler(name) ==
    /\ pc = "json"
    /\ FeedsText(name)
    /\ \/ CanMember(ctx)
       \/ ctx.lex = "hdr1" /\ name = VersionName
    /\ Fits(ctx, Comma(ctx) + Len(name) + 3)
    /\ IF MemberAborts(ctx)
       THEN LoadEnds("abort_member")
       ELSE /\ ctx' =
                 [ctx EXCEPT
                    !.key = TRUE,
                    !.items_key = (name = ItemsName /\ Len(ctx.stack) = 1),
                    !.lex = "free",
                    !.bytes = Spend(ctx, Comma(ctx) + Len(name) + 3),
                    !.current_entry_val =
                        IF InEntry(ctx) /\ Len(name) # 0
                        THEN MemberField(name) ELSE @,
                    !.current_meta_string =
                        IF ~(ctx.in_items /\ ctx.object_depth = 2)
                           /\ ctx.object_depth = 1
                           /\ ctx.array_depth = 0 /\ Len(name) # 0
                        THEN name ELSE @,
                    !.meta_freed =
                        IF ~(ctx.in_items /\ ctx.object_depth = 2)
                           /\ ctx.object_depth = 1
                           /\ ctx.array_depth = 0 /\ Len(name) # 0
                        THEN FALSE ELSE @]
            /\ input' = Rest
            /\ op' = Op("json", TRUE, "event")
            /\ UNCHANGED <<pc, lost>>
    /\ UNCHANGED <<out, cache, file, win32, cap, size, modified, entries, oob, nupdates>>

(* ------------------------------------------------------------------ *)
(* playlist_write_file, playlist_free                                  *)
(* ------------------------------------------------------------------ *)

\* The chunks of the calls of the JSON writer.
WriteSpace(n) == <<[k \in 1..n |-> " "]>>
WriteNewLine == <<<<"\n">>>>
WriteColon == <<<<":">>>>
WriteComma == <<<<",">>>>
WriteStartObject == <<<<"{">>>>
WriteEndObject == <<<<"}">>>>
WriteStartArray == <<<<"[">>>>
WriteEndArray == <<<<"]">>>>
WriteString(text) == <<<<"\"">> \o text \o <<"\"">>>>

VersionText == <<"1", ".", "0">>

\* "entries[i].f ? entries[i].f : ''"
OrEmpty(text) == IF text = NULL THEN EMPTY ELSE text

\* One member of an item object, up to its value.
WriteMember(name, text) ==
    WriteNewLine \o WriteSpace(6) \o WriteString(name) \o WriteColon
    \o WriteSpace(1) \o WriteString(text)

JsonHead ==
    WriteStartObject \o WriteNewLine \o WriteSpace(2)
    \o WriteString(VersionName) \o WriteColon \o WriteSpace(1)
    \o WriteString(VersionText) \o WriteComma \o WriteNewLine
    \o WriteSpace(2) \o WriteString(ItemsName) \o WriteColon
    \o WriteSpace(1) \o WriteStartArray \o WriteNewLine

JsonItem(e, last) ==
    WriteSpace(4) \o WriteStartObject
    \o WriteMember(PathName, OrEmpty(e.path)) \o WriteComma
    \o WriteMember(LabelName, OrEmpty(e.label)) \o WriteComma
    \o WriteMember(CorePathName, e.core_path) \o WriteComma
    \o WriteMember(CoreNameName, e.core_name) \o WriteComma
    \o WriteMember(Crc32Name, OrEmpty(e.crc32)) \o WriteComma
    \o WriteMember(DbNameName, OrEmpty(e.db_name)) \o WriteNewLine
    \o WriteSpace(4) \o WriteEndObject
    \o (IF last THEN <<>> ELSE WriteComma)
    \o WriteNewLine

JsonTail ==
    WriteSpace(2) \o WriteEndArray \o WriteNewLine \o WriteEndObject
    \o WriteNewLine

RECURSIVE JsonItems(_, _, _)
JsonItems(ents, i, sz) ==
    IF ~(i < sz) THEN <<>>
    ELSE JsonItem(ents[i], ~(i < sz - 1)) \o JsonItems(ents, i + 1, sz)

JsonChunks(ents, sz) == JsonHead \o JsonItems(ents, 0, sz) \o JsonTail

\* What printf gives for a null "%s" argument where it gives anything.
NullText == <<"(", "n", "u", "l", "l", ")">>

LegacyText(text) == IF text = NULL THEN NullText ELSE text

RECURSIVE LegacyChunks(_, _, _)
LegacyChunks(ents, i, sz) ==
    IF ~(i < sz) THEN <<>>
    ELSE LineChunks(<<OrEmpty(ents[i].path), OrEmpty(ents[i].label),
                      LegacyText(ents[i].core_path),
                      LegacyText(ents[i].core_name),
                      OrEmpty(ents[i].crc32), OrEmpty(ents[i].db_name)>>)
         \o LegacyChunks(ents, i + 1, sz)

\* A write that goes on whatever the flag says.
WriteReturnsNever(mod) == FALSE

\* "if (!playlist || !playlist->modified) return;"
WriteReturnsEarly(mod) == ~mod

\* Both encoders read core_path and core_name of every record unchecked:
\* strlen of a null pointer, or a null pointer for "%s".
WriteDerefsNull(ents, sz) ==
    \E i \in 0..(sz - 1) : ents[i].core_path = NULL \/ ents[i].core_name = NULL

\* How the calls into the file system and the writer turn out.
WriteOutcomes == {"ok", "open", "writer", "write", "fault"}

WrittenFile(old_format, ents, sz) ==
    [known |-> TRUE,
     chunks |-> IF old_format THEN LegacyChunks(ents, 0, sz)
                ELSE JsonChunks(ents, sz),
     codec |-> IF old_format THEN "legacy" ELSE "json",
     of |-> [k \in 1..sz |-> ents[k - 1]]]

\* The file once it has been opened for writing and nothing written.
EmptyFile == [known |-> TRUE, chunks |-> <<>>, codec |-> "none", of |-> <<>>]

\* modified after the encoder has run, whether or not its writes succeeded.
WriteClears(mod, failed) == FALSE

\* old_format is settings->bools.playlist_use_old_format; io says which
\* call fails: "open" filestream_open, "writer" JSON_Writer_Create,
\* "write" a filestream_write or the printf, "fault" the read of a null
\* core_path or core_name where that read is fatal.
playlist_write_file(old_format, io) ==
    /\ pc = "ready"
    /\ io = "writer" => ~old_format
    /\ io = "fault" => ~WriteReturnsEarly(modified)
                        /\ WriteDerefsNull(entries, size)
    /\ IF WriteReturnsEarly(modified)
       THEN /\ op' = Op("write", TRUE, "clean")
            /\ UNCHANGED <<file, modified, pc>>
       ELSE IF io = "open"
       THEN /\ op' = Op("write", TRUE, "open_failed")
            /\ UNCHANGED <<file, modified, pc>>
       ELSE IF io = "writer"
       THEN /\ op' = Op("write", TRUE, "writer_failed")
            /\ file' = EmptyFile
            /\ UNCHANGED <<modified, pc>>
       ELSE IF WriteDerefsNull(entries, size) /\ (~old_format \/ io = "fault")
       THEN /\ op' = Op("write", TRUE, "crash")
            /\ pc' = "crashed"
            /\ file' = AnyFile
            /\ UNCHANGED modified
       ELSE IF io = "write"
       THEN /\ op' = Op("write", TRUE, "write_failed")
            /\ file' = AnyFile
            /\ modified' = WriteClears(modified, TRUE)
            /\ UNCHANGED pc
       ELSE /\ op' = Op("write", TRUE, "written")
            /\ file' = WrittenFile(old_format, entries, size)
            /\ modified' = WriteClears(modified, FALSE)
            /\ UNCHANGED pc
    /\ UNCHANGED <<out, cache, input, lost, win32, cap, size, entries, oob, nupdates,
                   ctx>>

\* playlist_free, and the allocations of the playlist_init that follows it
\* for the same file and a capacity of newcap.
playlist_free(newcap) ==
    /\ pc = "ready"
    /\ pc' = "init"
    /\ cap' = newcap
    /\ size' = 0
    /\ modified' = FALSE
    /\ entries' = [j \in 0..(newcap - 1) |-> NullEntry]
    /\ op' = Op("free", TRUE, "free")
    /\ UNCHANGED <<out, cache, file, input, lost, win32, oob, nupdates, ctx>>

(* ------------------------------------------------------------------ *)
(* playlist_init_cached, playlist_get_cached, playlist_free_cached     *)
(* ------------------------------------------------------------------ *)

\* Playlists are numbered as they are allocated.  slot: playlist_cached,
\* 0 for NULL; live: the playlists allocated and not freed; made: how many
\* were allocated; got: what playlist_get_cached returned last.
NoCache == [slot |-> 0, live |-> {}, made |-> 0, got |-> 0]

\* "playlist_cached = playlist": the playlist the slot held stays
\* allocated.
InitCachedKeeps(c, id) == c.live \cup {id}

\* playlist_init fails when malloc or calloc does (ok = FALSE); otherwise
\* the new playlist, here for a file that cannot be opened, is put into
\* the slot.  The variables of the playlist are those of the last one
\* allocated.
\* The playlist the slot held is not freed, and its entries with it.
InitCachedLoses(was, at, ents, sz) ==
    was \/ (at = "ready" /\ \E j \in 0..(sz - 1) : HoldsText(ents[j]))

playlist_init_cached(newcap, ok) ==
    /\ pc \in {"init", "ready"}
    /\ cache.made < MaxStores
    /\ IF ~ok
       THEN /\ op' = Op("init_cached", FALSE, "nomem")
            /\ UNCHANGED <<cache, pc, cap, size, modified, entries, lost>>
       ELSE LET id == cache.made + 1
            IN  /\ cache' = [cache EXCEPT !.slot = id, !.made = id,
                                !.live = InitCachedKeeps(cache, id)]
                /\ pc' = "ready"
                /\ cap' = newcap
                /\ size' = 0
                /\ modified' = FALSE
                /\ entries' = [j \in 0..(newcap - 1) |-> NullEntry]
                /\ lost' = InitCachedLoses(lost, pc, entries, size)
                /\ op' = Op("init_cached", TRUE, "cached")
    /\ UNCHANGED <<out, file, input, win32, oob, nupdates, ctx>>

playlist_get_cached ==
    /\ cache' = [cache EXCEPT !.got = cache.slot]
    /\ op' = Op("get_cached", cache.slot # 0, "get_cached")
    /\ UNCHANGED <<out, file, input, lost, win32, pc, cap, size, modified, entries,
                   oob, nupdates, ctx>>

\* playlist_free(playlist_cached), which returns at once for NULL, then
\* "playlist_cached = NULL".
playlist_free_cached ==
    /\ cache' = [cache EXCEPT !.slot = 0, !.live = cache.live \ {cache.slot}]
    /\ IF cache.slot = 0
       THEN UNCHANGED <<pc, size, modified, entries>>
       ELSE /\ pc' = "init"
            /\ size' = 0
            /\ modified' = FALSE
            /\ entries' = [j \in 0..(cap - 1) |-> NullEntry]
    /\ op' = Op("free_cached", TRUE, IF cache.slot = 0 THEN "null" ELSE "freed")
    /\ UNCHANGED <<out, file, input, lost, win32, cap, oob, nupdates, ctx>>

(* ------------------------------------------------------------------ *)
(* Inputs and the specification                                        *)
(* ------------------------------------------------------------------ *)

\* Candidates of playlist_push: path, label, core_path, core_name, crc32,
\* db_name.
PushArgs ==
    { Entry(PathA,  LabelX, CoreF,  NameF, NULL,  NULL),
      Entry(PathA,  LabelY, CoreF,  NameG, Crc1,  EMPTY),
      Entry(PathAU, NULL,   CoreF,  NameF, NULL,  NULL),
      Entry(PathA,  EMPTY,  CoreFU, NameF, EMPTY, NULL),
      Entry(EMPTY,  LabelX, CoreG,  NameG, NULL,  Db1),
      Entry(PathA,  NULL,   CoreF,  NULL,  NULL,  NULL),
      Entry(PathB,  NULL,   CoreG,  EMPTY, NULL,  NULL),
      Entry(PathA,  LabelX, NULL,   NameF, NULL,  NULL),
      Entry(PathB,  NULL,   EMPTY,  EMPTY, NULL,  NULL),
      Entry(PathB,  NULL,   NULL,   NULL,  NULL,  NULL) }

\* Arguments of playlist_update: per field a null pointer, the stored
\* pointer itself, or a fresh text.
UpdateArgs ==
    { Entry(NULL,  NULL,   NULL,  NULL,  NULL, NULL),
      Entry(NULL,  LabelY, NULL,  NULL,  NULL, NULL),
      Entry(ALIAS, ALIAS,  NULL,  ALIAS, NULL, NULL),
      Entry(EMPTY, NULL,   EMPTY, EMPTY, NULL, NULL),
      Entry(PathB, LabelX, CoreG, NameG, Crc1, Db1) }

\* The inputs of the whole-life specification.
FewPushArgs ==
    { Entry(PathA, LabelX, CoreF, NameF, NULL, NULL),
      Entry(EMPTY, NULL,   CoreG, NameG, NULL, NULL),
      Entry(PathB, NULL,   EMPTY, EMPTY, NULL, NULL) }

FewUpdateArgs ==
    { Entry(NULL, LabelY, NULL,  NULL,  NULL, NULL),
      Entry(NULL, NULL,   EMPTY, EMPTY, NULL, NULL) }

\* The update that blanks the path, the core path and the core name.
BlankUpdateArgs == {Entry(EMPTY, NULL, EMPTY, EMPTY, NULL, NULL)}

\* A path of as many bytes as a line buffer has.
LongPath == [k \in 1..BufSize |-> "a"]

\* Legacy files, as lines: a record; three groups of which the third has
\* no path; a group without a core name, a group with Windows line ends
\* and half a group; a record whose path does not fit a line buffer.
LegacyFiles ==
    { <<PathA, LabelX, CoreF, NameF, Crc1, Db1>>,
      <<PathA, EMPTY, CoreF, NameF, EMPTY, EMPTY,
        PathB, LabelY, CoreG, NameG, EMPTY, EMPTY,
        EMPTY, EMPTY, CoreG, NameG, EMPTY, EMPTY>>,
      <<PathA, LabelX, CoreF, EMPTY, EMPTY, EMPTY,
        PathB \o <<"\r">>, <<"\r">>, CoreG \o <<"\r">>, NameG \o <<"\r">>,
        <<"\r">>, <<"\r">>,
        PathA, LabelX, CoreF>>,
      <<LongPath, LabelX, CoreF, NameF, Crc1, Db1>> }

JsonNames == {ItemsName, CorePathName, EMPTY}

JsonStrings == {EMPTY, CoreF}

Init ==
    /\ win32 \in BOOLEAN
    /\ pc = "init"
    /\ cap \in 1..MaxCap
    /\ size = 0
    /\ modified = FALSE
    /\ entries = [j \in 0..(cap - 1) |-> NullEntry]
    /\ oob = FALSE
    /\ nupdates = 0
    /\ ctx = NoContext
    /\ file = AnyFile
    /\ input = AnyInput
    /\ out = Unset
    /\ cache = NoCache
    /\ lost = FALSE
    /\ op = Op("none", TRUE, "none")

Next ==
    \/ InitNoFile
    \/ \E lines \in LegacyFiles : InitLegacy(lines)
    \/ \E short \in BOOLEAN : InitJson(short)
    \/ JSONStartObjectHandler
    \/ JSONEndObjectHandler
    \/ JSONStartArrayHandler
    \/ JSONEndArrayHandler
    \/ \E v \in JsonStrings : JSONStringHandler(v)
    \/ \E name \in JsonNames \cup {VersionName} : JSONObjectMemberHandler(name)
    \/ JsonOtherValue
    \/ JsonEnd
    \/ \E a \in FewPushArgs : playlist_push(a)
    \/ \E idx \in 0..cap : \E u \in FewUpdateArgs : playlist_update(idx, u)
    \/ \E idx \in 0..(cap - 1) : playlist_delete_index(idx)
    \/ playlist_clear
    \/ playlist_qsort

\* The whole life of a playlist: any file, then a few kinds of calls.
Spec == Init /\ [][Next]_vars

NextStore ==
    \/ InitNoFile
    \/ \E a \in PushArgs : playlist_push(a)
    \/ \E idx \in 0..cap : \E u \in BlankUpdateArgs : playlist_update(idx, u)
    \/ \E idx \in 0..(cap - 1) : playlist_delete_index(idx)
    \/ playlist_clear
    \/ playlist_qsort

\* The pushes in detail, on a playlist that starts empty.
SpecStore == Init /\ [][NextStore]_vars

NextPush ==
    \/ InitNoFile
    \/ \E a \in PushArgs : playlist_push(a)

\* Pushes alone, on a playlist that starts empty.
SpecPush == Init /\ [][NextPush]_vars

NextUpdate ==
    \/ InitNoFile
    \/ \E a \in FewPushArgs : playlist_push(a)
    \/ \E idx \in 0..cap : \E u \in UpdateArgs : playlist_update(idx, u)
    \/ \E idx \in 0..(cap - 1) : playlist_delete_index(idx)

\* The updates in detail, on a playlist that starts empty.
SpecUpdate == Init /\ [][NextUpdate]_vars

NextPersist ==
    \/ InitNoFile
    \/ \E lines \in {FileLines(file.chunks)} : file.known /\ InitLegacy(lines)
    \/ \E short \in BOOLEAN : file.known /\ InitJson(short)
    \/ JSONStartObjectHandler
    \/ JSONEndObjectHandler
    \/ JSONStartArrayHandler
    \/ JSONEndArrayHandler
    \/ \E v \in FileTexts : JSONStringHandler(v)
    \/ \E name \in FileTexts : JSONObjectMemberHandler(name)
    \/ JsonNextChunk
    \/ JsonEnd
    \/ \E a \in FewPushArgs : ~file.known /\ playlist_push(a)
    \/ \E idx \in 0..cap : \E u \in FewUpdateArgs :
          ~file.known /\ playlist_update(idx, u)
    \/ \E idx \in 0..(cap - 1) : ~file.known /\ playlist_delete_index(idx)
    \/ ~file.known /\ playlist_clear
    \/ \E old_format \in BOOLEAN : \E io \in WriteOutcomes :
          playlist_write_file(old_format, io)
    \/ \E newcap \in 1..MaxCap : playlist_free(newcap)

\* Writing the file and loading what was written: a playlist whose file
\* does not exist at first is built by its caller, written, freed and
\* loaded again; once the file holds what was written the caller only
\* writes, frees and loads.
SpecPersist == Init /\ [][NextPersist]_vars

\* Candidates for the lookups: two records of one path, one of another
\* path and one without a path.
LookupPushArgs ==
    { Entry(PathA, LabelX, CoreF, NameF, NULL, NULL),
      Entry(PathA, LabelY, CoreG, NameG, Crc1, Db1),
      Entry(PathB, NULL,   CoreF, NameF, Crc1, NULL),
      Entry(EMPTY, LabelX, CoreG, NameG, NULL, NULL) }

\* Paths looked up, and checksums given with them.
LookupPaths == {PathA, PathB, PathAU, EMPTY, NULL}

LookupCrcs == {NULL, Crc1}

NextLookup ==
    \/ InitNoFile
    \/ \E a \in LookupPushArgs : playlist_push(a)
    \/ \E idx \in 0..(cap - 1) : playlist_delete_index(idx)
    \/ playlist_clear
    \/ \E idx \in 0..cap : playlist_get_index(idx)
    \/ \E path \in LookupPaths : GetIndexByPath(path)
    \/ \E path \in LookupPaths : \E crc32 \in LookupCrcs :
          EntryExists(path, crc32)

\* The lookups, on a playlist that starts empty and is filled and emptied.
SpecLookup == Init /\ [][NextLookup]_vars

NextUnsaved ==
    \/ InitNoFile
    \/ \E a \in LookupPushArgs : ~file.known /\ playlist_push(a)
    \/ playlist_clear
    \/ playlist_qsort
    \/ \E old_format \in BOOLEAN : \E io \in WriteOutcomes :
          playlist_write_file(old_format, io)

\* A playlist that is filled and written, then cleared, sorted and written
\* again.
SpecUnsaved == Init /\ [][NextUnsaved]_vars

NextRelease ==
    \/ InitNoFile
    \/ \E a \in FewPushArgs : playlist_push(a)
    \/ \E idx \in 0..(cap - 1) : \E u \in FewUpdateArgs :
          idx < size /\ playlist_update(idx, u)
    \/ \E idx \in 0..(cap - 1) : playlist_delete_index(idx)
    \/ playlist_clear
    \/ \E newcap \in 1..MaxCap : playlist_free(newcap)

\* A playlist that starts empty, is changed by its caller, who updates
\* entries below size only, and is freed.
SpecRelease == Init /\ [][NextRelease]_vars

\* A label that, after the path "{", gives a legacy file the first bytes of
\* a JSON one.
HeaderLabel ==
    <<" ", " ", "\"", "v", "e", "r", "s", "i", "o", "n", "\"", ":", " ">>

\* Candidates for the legacy round trip: a record with every field, one
\* with the core fields only, one whose path is as long as a line buffer,
\* and one whose path and label read like the head of a JSON file.
RoundTripArgs ==
    { Entry(PathA,    LabelY,      CoreG, NameG, Crc1, Db1),
      Entry(EMPTY,    NULL,        CoreG, NameG, NULL, NULL),
      Entry(LongPath, LabelX,      CoreF, NameF, NULL, NULL),
      Entry(<<"{">>,  HeaderLabel, CoreF, NameF, NULL, NULL) }

NextRoundTrip ==
    \/ InitNoFile
    \/ \E a \in RoundTripArgs : ~file.known /\ playlist_push(a)
    \/ \E old_format \in {TRUE} : \E io \in {"ok"} :
          playlist_write_file(old_format, io)
    \/ \E newcap \in {cap} : playlist_free(newcap)
    \/ \E lines \in {FileLines(file.chunks)} : file.known /\ InitLegacy(lines)
    \/ \E short \in BOOLEAN : file.known /\ InitJson(short)
    \/ JSONStartObjectHandler
    \/ JsonNextChunk
    \/ JsonEnd

\* A playlist built by pushes, written in the legacy format, freed and
\* loaded again into a playlist of the same capacity.
SpecRoundTrip == Init /\ [][NextRoundTrip]_vars

NextHostile ==
    \/ \E lines \in LegacyFiles : InitLegacy(lines)
    \/ \E short \in BOOLEAN : InitJson(short)
    \/ JSONStartObjectHandler
    \/ JSONEndObjectHandler
    \/ JSONStartArrayHandler
    \/ JSONEndArrayHandler
    \/ \E v \in JsonStrings : JSONStringHandler(v)
    \/ \E name \in JsonNames \cup {VersionName} : JSONObjectMemberHandler(name)
    \/ JsonOtherValue
    \/ JsonEnd
    \/ \E a \in FewPushArgs : ~file.known /\ playlist_push(a)
    \/ \E old_format \in BOOLEAN : \E io \in WriteOutcomes :
          playlist_write_file(old_format, io)

\* A file of any content is loaded, the caller pushes and writes.
SpecHostile == Init /\ [][NextHostile]_vars

NextCached ==
    \/ \E newcap \in 1..MaxCap : \E ok \in BOOLEAN :
          playlist_init_cached(newcap, ok)
    \/ playlist_get_cached
    \/ playlist_free_cached
    \/ \E a \in FewPushArgs : playlist_push(a)

\* The cached playlist: created, used, replaced and freed.
SpecCached == Init /\ [][NextCached]_vars

(* ------------------------------------------------------------------ *)
(* Terms the properties are stated in                                  *)
(* ------------------------------------------------------------------ *)

\* An optional text as a record keeps it: absent when empty.
Absent(s) == IF s = NULL \/ s = EMPTY THEN NULL ELSE s

IsBlank(s) == s = NULL \/ s = EMPTY

\* The candidate names a core: its core name is given or can be derived.
NamesCore(a) == ~IsBlank(a.core_path)

\* The candidate gives both the core path and the core name.
GivesBoth(a) == ~IsBlank(a.core_path) /\ ~IsBlank(a.core_name)

\* The record a candidate that names a core stands for.
RecordOf(a) ==
    Entry(Absent(a.path), Absent(a.label), a.core_path,
          IF IsBlank(a.core_name)
          THEN fill_pathname_base_noext(a.core_path) ELSE a.core_name,
          Absent(a.crc32), Absent(a.db_name))

SameLetters(s, t) ==
    /\ Len(s) = Len(t)
    /\ \A k \in 1..Len(s) : tolower(s[k]) = tolower(t[k])

\* The same logical entry, as playlist_push decides it: the path compared
\* without regard to case on a _WIN32 build and exactly elsewhere, a blank
\* candidate path equal only to an absent stored path, and the core path
\* compared exactly on every build.
SameEntry(win, e, a) ==
    /\ \/ IsBlank(a.path) /\ e.path = NULL
       \/ /\ ~IsBlank(a.path)
          /\ e.path # NULL
          /\ IF win THEN SameLetters(a.path, e.path) ELSE a.path = e.path
    /\ e.core_path # NULL
    /\ a.core_path # NULL
    /\ e.core_path = a.core_path

\* The same logical entry, as documented: the path compared exactly on
\* every platform (or both blank), the core path without regard to case
\* on a platform with a case-insensitive file system.
SameEntryAsDocumented(win, e, a) ==
    /\ \/ IsBlank(a.path) /\ IsBlank(e.path)
       \/ ~IsBlank(a.path) /\ ~IsBlank(e.path) /\ a.path = e.path
    /\ ~IsBlank(a.core_path)
    /\ ~IsBlank(e.core_path)
    /\ IF win THEN SameLetters(a.core_path, e.core_path)
              ELSE a.core_path = e.core_path

\* Indices below size of the records that are the candidate's entry.
Matches(a) == {i \in 0..(size - 1) : SameEntry(win32, entries[i], a)}

MatchesAsDocumented(a) ==
    {i \in 0..(size - 1) : SameEntryAsDocumented(win32, entries[i], a)}

Lowest(S) == CHOOSE x \in S : \A y \in S : x <= y

StoreUnchanged == UNCHANGED <<size, modified, entries>>

(* ------------------------------------------------------------------ *)
(* Properties                                                          *)
(* ------------------------------------------------------------------ *)

\* C1: in every reachable state of a playlist of capacity >= 1, whatever
\* file it was loaded from and whatever calls followed, 0 <= size <= cap.
SizeWithinCapacity == 0 <= size /\ size <= cap

\* A full playlist that has just evicted its last entry for a new one.
FullAfterEviction ==
    pc = "ready" /\ op.branch = "evict" /\ size = cap /\ cap = MaxCap

\* C2: pushing a candidate that names a core and is the entry of no record,
\* on a full playlist, leaves size = cap, puts the candidate's record at
\* index 0, moves the records formerly at 0..cap-2 to 1..cap-1 in order,
\* and so drops exactly the record that was last.
PushOnFullEvictsLast ==
    [][op'.name = "push" =>
        \A a \in PushArgs :
            (playlist_push(a) /\ NamesCore(a) /\ Matches(a) = {}
                /\ size = cap)
            => /\ size' = cap
               /\ entries'[0] = RecordOf(a)
               /\ \A j \in 1..(cap - 1) : entries'[j] = entries[j - 1]]_vars

\* C3: pushing a candidate that names a core and is the entry of the record
\* at index i > 0 moves that record to index 0, the records formerly at
\* 0..i-1 to 1..i in order, leaves the records above i and the size as they
\* were, sets modified and reports success.
PushOfKnownBumpsToTop ==
    [][op'.name = "push" =>
        \A a \in PushArgs :
            (playlist_push(a) /\ NamesCore(a) /\ Matches(a) # {}
                /\ Lowest(Matches(a)) > 0)
            => LET i == Lowest(Matches(a))
               IN  /\ entries'[0] = entries[i]
                   /\ \A j \in 1..i : entries'[j] = entries[j - 1]
                   /\ \A j \in (i + 1)..(size - 1) : entries'[j] = entries[j]
                   /\ size' = size
                   /\ modified'
                   /\ op'.ret
                   /\ size' <= size]_vars

\* C4: pushing a candidate that is the entry of the record at index 0
\* changes nothing, not the records, not one field of the top record even
\* where the candidate's label or core name differs, not the size, not
\* modified, and reports "not modified".
PushOfTopIsNoOp ==
    [][op'.name = "push" =>
        \A a \in PushArgs :
            (playlist_push(a) /\ 0 \in Matches(a))
            => StoreUnchanged /\ ~op'.ret]_vars

\* A push has found its candidate at the top of a playlist.
PushedTheTop == op.branch = "top" /\ size >= 1 /\ ~op.ret

\* C5: pushing a candidate that names a core and is the entry of no record,
\* on a playlist that is not full, puts the candidate's record (blank
\* optional fields absent) at index 0, moves every record down by one in
\* order, adds one to size, sets modified and reports success.
PushOfNewInserts ==
    [][op'.name = "push" =>
        \A a \in PushArgs :
            (playlist_push(a) /\ NamesCore(a) /\ Matches(a) = {}
                /\ size < cap)
            => /\ entries'[0] = RecordOf(a)
               /\ \A j \in 1..size : entries'[j] = entries[j - 1]
               /\ size' = size + 1
               /\ modified'
               /\ op'.ret]_vars

\* C6: a push with a core path and a blank core name is accepted, and the
\* record it stores has the core path's base name without extension as its
\* core name.
PushDerivesCoreName ==
    [][op'.name = "push" =>
        \A a \in PushArgs :
            (playlist_push(a) /\ ~IsBlank(a.core_path) /\ IsBlank(a.core_name)
                /\ Matches(a) = {})
            => /\ op'.ret
               /\ size' >= 1
               /\ entries'[0].core_path = a.core_path
               /\ entries'[0].core_name =
                      fill_pathname_base_noext(a.core_path)]_vars

\* C7: a push with a blank core path and a blank core name reports failure
\* and changes nothing: the same records in the same order, the same size,
\* the same modified flag.
PushOfNamelessIsRejected ==
    [][op'.name = "push" =>
        \A a \in PushArgs :
            (playlist_push(a) /\ IsBlank(a.core_path) /\ IsBlank(a.core_name))
            => StoreUnchanged /\ ~op'.ret]_vars

\* A push with both texts blank has been rejected on a playlist that holds
\* records.
RejectedOnNonEmpty == op.branch = "reject_both" /\ ~op.ret /\ size >= 1

\* C8: no record at an index below size has both its core path and its
\* core name blank.
EveryRecordNamesACore ==
    \A i \in 0..(size - 1) :
        ~(IsBlank(entries[i].core_path) /\ IsBlank(entries[i].core_name))

\* What a push that searched the playlist did with its candidate, given the
\* indices of the records that are the candidate's entry.
PushFollows(hits) ==
    IF hits = {} THEN /\ size' = (IF size = cap THEN size ELSE size + 1)
                      /\ op'.branch \in {"insert", "evict"}
    ELSE IF Lowest(hits) = 0 THEN StoreUnchanged /\ op'.branch = "top"
    ELSE /\ entries'[0] = entries[Lowest(hits)]
         /\ size' = size
         /\ op'.branch = "bump"

\* C9, as stated: a push takes a record for the candidate's entry iff their
\* paths are equal exactly (or both blank) and their core paths are equal,
\* without regard to case on a case-insensitive platform.
PushMatchesAsDocumented ==
    [][op'.name = "push" =>
        \A a \in PushArgs :
            (playlist_push(a) /\ GivesBoth(a))
            => PushFollows(MatchesAsDocumented(a))]_vars

\* C9, amended: a push takes a record for the candidate's entry iff their
\* paths are equal, without regard to case on a _WIN32 build and exactly
\* elsewhere (a blank candidate path being equal to an absent stored path
\* only), and their core paths are equal exactly, on every build.
PushMatchesByPathAndCorePath ==
    [][op'.name = "push" =>
        \A a \in PushArgs :
            (playlist_push(a) /\ GivesBoth(a))
            => PushFollows(Matches(a))]_vars

\* On a _WIN32 build a push has inserted a record beside one of the same
\* path whose core path differs from its own in case only.
InsertedBesideOtherCase ==
    /\ win32
    /\ op.branch \in {"insert", "evict"}
    /\ size >= 2
    /\ entries[0].path # NULL
    /\ entries[0].path = entries[1].path
    /\ entries[0].core_path # entries[1].core_path
    /\ SameLetters(entries[0].core_path, entries[1].core_path)

\* C10: an update at an index below size replaces exactly the fields that
\* are supplied, leaves the other fields of that record, every other
\* record, the order and the size as they were, and sets modified iff a
\* field was supplied by a pointer other than the stored one.
UpdateReplacesSuppliedFields ==
    [][op'.name = "update" =>
        \A idx \in 0..cap : \A u \in UpdateArgs :
            (playlist_update(idx, u) /\ idx < size)
            => /\ \A f \in Fields :
                    entries'[idx][f] =
                        IF u[f] = NULL \/ u[f] = ALIAS
                        THEN entries[idx][f] ELSE u[f]
               /\ \A j \in 0..(cap - 1) :
                    j # idx => entries'[j] = entries[j]
               /\ size' = size
               /\ modified' =
                    (modified \/ \E f \in Fields : u[f] \notin {NULL, ALIAS})]_vars

\* An update has given the label of a record below size a new text, and an
\* empty text to its core path.
UpdatedARecord ==
    /\ op.branch = "update"
    /\ modified
    /\ \E i \in 0..(size - 1) :
          entries[i].label = LabelY \/ entries[i].core_path = EMPTY

\* C11: an update at an index >= size (the index equal to size included)
\* writes no slot of the entry array, nor one past it, and leaves modified,
\* size and every record as they were.
UpdateOutOfRangeIsNoOp ==
    [][op'.name = "update" =>
        \A idx \in 0..cap : \A u \in UpdateArgs :
            (playlist_update(idx, u) /\ idx >= size)
            => StoreUnchanged /\ oob' = oob]_vars

\* C12: a delete at an index below size takes that record out, moves every
\* later record up by one in order, decrements size and sets modified;
\* after it the path of the deleted record is found by
\* playlist_get_index_by_path and by playlist_entry_exists only if a
\* remaining record has that path.
DeleteRemovesAndShifts ==
    [][op'.name = "delete" =>
        \A idx \in 0..(cap - 1) :
            (playlist_delete_index(idx) /\ idx < size)
            => LET gone == entries[idx].path
                   shared == \E j \in 0..(size - 1) :
                                /\ j # idx
                                /\ gone # NULL
                                /\ entries[j].path = gone
               IN  /\ size' = size - 1
                   /\ \A j \in 0..(size - 2) :
                         entries'[j] =
                             IF j < idx THEN entries[j] ELSE entries[j + 1]
                   /\ modified'
                   /\ playlist_entry_exists(entries', size', gone) = shared
                   /\ (playlist_get_index_by_path(entries', size', gone) >= 0)
                         = shared]_vars

\* A delete has taken out the first of two records: the second one moved up
\* and the slot it came from still holds its content.
DeletedTheFirstOfTwo ==
    /\ op.name = "delete"
    /\ size = 1
    /\ cap >= 2
    /\ modified
    /\ entries[0].path # NULL
    /\ entries[1] = entries[0]

\* A record with its optional fields normalised: absent when empty.
Normal(e) ==
    Entry(Absent(e.path), Absent(e.label), e.core_path, e.core_name,
          Absent(e.crc32), Absent(e.db_name))

\* A record with every field normalised.
AllNormal(e) == [f \in Fields |-> Absent(e[f])]

\* A load of the file this playlist wrote with its JSON encoder has ended,
\* the file having been opened.
LoadedWrittenJson ==
    /\ pc = "ready"
    /\ op.name = "init"
    /\ op.branch # "nofile"
    /\ file.known
    /\ file.codec = "json"

\* C13: playlist_write_file on a playlist whose modified flag is false
\* opens and writes nothing; the flag is false after a load and after a
\* write that succeeded, so that a write that follows a successful write
\* writes nothing.
WriteOnlyWhenModified ==
    [][/\ (op'.name = "write" /\ ~modified)
            => /\ op'.branch = "clean"
               /\ file' = file
               /\ StoreUnchanged
       /\ (op'.name = "init" /\ pc' = "ready") => ~modified'
       /\ (op'.name = "write" /\ op'.branch = "written") => ~modified'
       /\ (op.name = "write" /\ op.branch = "written" /\ op'.name = "write")
            => op'.branch = "clean"]_vars

\* A write on a playlist that holds records and was not modified since its
\* file was written has done nothing.
WroteNothing ==
    /\ op.name = "write"
    /\ op.branch = "clean"
    /\ file.known
    /\ file.codec # "none"
    /\ size > 0

\* C14: a write on a modified playlist clears modified only if the file was
\* opened and every byte written; when the open or a write fails modified
\* stays true, and the records are unchanged in each case.
WriteClearsOnSuccessOnly ==
    [][(op'.name = "write" /\ modified)
        => /\ modified' = ~(op'.branch = "written")
           /\ size' = size
           /\ entries' = entries]_vars

\* C15: a file written by the JSON encoder, loaded into a fresh playlist of
\* the same capacity, gives the records that were written, in their order,
\* an absent optional field and an empty one taken as equal.
JsonRoundTrip ==
    (LoadedWrittenJson /\ cap >= Len(file.of))
    => /\ size = Len(file.of)
       /\ \A i \in 0..(size - 1) : Normal(entries[i]) = Normal(file.of[i + 1])

\* C16: the JSON decoder never takes size beyond the capacity and writes no
\* slot outside the array; the load of a file with more items than the
\* capacity ends at the start of the first object beyond it, the playlist
\* holding the first cap items of the file in their order.
DecodeStopsAtCapacity ==
    [][/\ pc = "json" => size' <= cap /\ oob' = oob
       /\ op'.branch = "abort_full"
            => /\ size = cap
               /\ size' = cap
               /\ entries' = entries
               /\ pc' = "ready"
       /\ (pc = "json" /\ pc' = "ready" /\ file.known /\ file.codec = "json"
             /\ Len(file.of) > cap)
            => /\ op'.branch = "abort_full"
               /\ \A i \in 0..(cap - 1) :
                     AllNormal(entries'[i]) = AllNormal(file.of[i + 1])]_vars

\* The load of a written file with more items than the capacity has ended.
StoppedAtCapacity ==
    /\ LoadedWrittenJson
    /\ op.branch = "abort_full"
    /\ size = cap
    /\ Len(file.of) > cap

\* C17: what a load that was aborted for capacity returns differs from
\* what a load returns that ended on a syntax error, and from what a load
\* returns that the member handler aborted.
CapacityAbortIsDistinct ==
    (op.name = "init" /\ op.branch = "abort_full")
    => /\ op.ret # LoadReturns("end")
       /\ op.ret # LoadReturns("abort_member")

ShortFileLoadsNothing ==
    [][/\ (pc = "json" /\ pc' = "ready" /\ ctx.bytes < ProbeBytes)
            => size' = 0 /\ op'.ret
       /\ op'.branch = "nofile" => size' = 0 /\ op'.ret]_vars

\* The first bytes of every file the JSON encoder writes.
CanonicalOpening == SubSeq(Flatten(JsonHead), 1, ProbeBytes)

\* C20: a file of at least 15 bytes that is opened is given to the JSON
\* decoder iff its first 15 bytes are those the JSON encoder writes first,
\* and to the legacy decoder otherwise; every file the JSON encoder wrote
\* is given to the JSON decoder.
DetectionFollowsOpening ==
    [][(pc = "init" /\ pc' # "init" /\ op'.branch # "nofile" /\ file.known)
        => LET bytes == Probe(file.chunks)
           IN  /\ Len(bytes) = ProbeBytes
                    => /\ (pc' = "json") = (bytes = CanonicalOpening)
                       /\ (op'.branch = "legacy") = (bytes # CanonicalOpening)
               /\ file.codec = "json" => pc' = "json"]_vars

\* A file of at least 15 bytes that the legacy encoder wrote has been given
\* to the legacy decoder.
DetectedLegacy ==
    /\ op.name = "init"
    /\ op.branch = "legacy"
    /\ file.known
    /\ file.codec = "legacy"
    /\ size >= 1

\* The text of a line of the file without its line end.
LineText(line) ==
    IF line # EMPTY /\ line[Len(line)] = "\r"
    THEN SubSeq(line, 1, Len(line) - 1) ELSE line

\* The complete groups of PLAYLIST_ENTRIES lines of a file, in their order.
LineGroups(lines) ==
    [g \in 1..(Len(lines) \div PLAYLIST_ENTRIES) |->
        [k \in 1..PLAYLIST_ENTRIES |->
            LineText(lines[(g - 1) * PLAYLIST_ENTRIES + k])]]

\* The group gives a core path and a core name.
GroupGivesCore(group) == group[3] # EMPTY /\ group[4] # EMPTY

\* The record a group of lines stands for.
GroupRecord(group) ==
    Entry(Absent(group[1]), Absent(group[2]), group[3], group[4],
          Absent(group[5]), Absent(group[6]))

\* The records a legacy file of these lines stands for.
GroupRecords(lines) ==
    LET kept == SelectSeq(LineGroups(lines), GroupGivesCore)
    IN  [k \in 1..Len(kept) |-> GroupRecord(kept[k])]

\* C21: the legacy decoder loads the records of the complete groups of 6
\* lines that give a core path and a core name, in their order, up to the
\* capacity; groups without one of the two are skipped and an incomplete
\* last group is dropped.
LegacyLoadsGroupsOfSix ==
    [][\A lines \in LegacyFiles :
          InitLegacy(lines)
          => LET records == GroupRecords(lines)
                 n == IF Len(records) < cap THEN Len(records) ELSE cap
             IN  /\ size' = n
                 /\ \A i \in 0..(n - 1) : entries'[i] = records[i + 1]]_vars

\* The same for the files every line of which fits a line buffer.
LegacyLoadsGroupsOfShortLines ==
    [][\A lines \in LegacyFiles :
          (InitLegacy(lines)
             /\ \A k \in 1..Len(lines) : Len(lines[k]) + 1 < BufSize)
          => LET records == GroupRecords(lines)
                 n == IF Len(records) < cap THEN Len(records) ELSE cap
             IN  /\ size' = n
                 /\ \A i \in 0..(n - 1) : entries'[i] = records[i + 1]]_vars

\* C22: playlist_entry_exists returns true iff a record below size has
\* exactly the path asked for, whatever checksum is given with it and
\* whatever else the records hold.
ExistsIffSomePathEqual ==
    [][\A path \in LookupPaths : \A crc32 \in LookupCrcs :
          EntryExists(path, crc32)
          => op'.ret = (/\ path # NULL
                        /\ \E i \in 0..(size - 1) : entries[i].path = path)]_vars

\* The path of a removed record, still in its slot, was asked for and not
\* found, while another record is stored.
ExistsIgnoredARemovedRecord ==
    /\ op.name = "entry_exists"
    /\ ~op.ret
    /\ size = 1
    /\ \E j \in size..(cap - 1) :
          /\ entries[j].path \in {PathA, PathB}
          /\ entries[j].path # entries[0].path
          /\ ~playlist_entry_exists(entries, size, entries[j].path)

\* C23: playlist_get_index_by_path gives its caller the fields of the
\* record of the lowest index below size whose path is the one asked for,
\* and leaves the caller's variables as they were when there is none.
FindByPathGivesLowestMatch ==
    [][\A path \in LookupPaths :
          GetIndexByPath(path)
          => LET found == {i \in 0..(size - 1) :
                              path # NULL /\ entries[i].path = path}
             IN  IF found = {} THEN out' = Unset
                 ELSE out' = entries[Lowest(found)]]_vars

\* Two records of one path are stored and a lookup has given the fields of
\* the first, which are not those of the second.
FoundTheFirstOfTwo ==
    /\ op.name = "get_index_by_path"
    /\ op.ret
    /\ size = 2
    /\ entries[0].path = entries[1].path
    /\ entries[0] # entries[1]
    /\ out = entries[0]

\* C24: playlist_get_index at an index that is not below size gives its
\* caller nothing: every field absent, or the caller's variables as they
\* were.
GetIndexNeverStale ==
    [][\A idx \in 0..cap :
          (playlist_get_index(idx) /\ idx >= size)
          => out' \in {NullEntry, Unset}]_vars

\* C25: playlist_clear sets size to 0, releases every record below size and
\* keeps the capacity and the file; after it no path is found, by
\* playlist_entry_exists or by playlist_get_index_by_path.
ClearEmptiesTheStore ==
    [][playlist_clear
       => /\ size' = 0
          /\ \A i \in 0..(size - 1) : entries'[i] = NullEntry
          /\ \A i \in size..(cap - 1) : entries'[i] = entries[i]
          /\ cap' = cap
          /\ file' = file
          /\ \A path \in LookupPaths :
                /\ ~playlist_entry_exists(entries', size', path)
                /\ playlist_get_index_by_path(entries', size', path) = -1]_vars

\* A playlist that held records has been cleared, and a lookup of a path
\* found none.
ClearedThenLookedUp ==
    /\ op.name \in {"entry_exists", "get_index_by_path"}
    /\ ~op.ret
    /\ size = 0
    /\ modified
    /\ cap >= 2
    /\ \A i \in 0..(cap - 1) : entries[i] = NullEntry

\* C26: playlist_qsort leaves size as it is and rearranges the records
\* below size so that those with a label are in non-decreasing order of
\* their labels compared without regard to case, and so that records the
\* comparison takes for equal keep their order.
SortIsStableByLabel ==
    [][playlist_qsort
       => /\ size' = size
          /\ \E p \in IndexPermutations(size) :
                /\ \A j \in 0..(size - 1) : entries'[j] = entries[p[j]]
                /\ \A i, j \in 0..(size - 1) :
                      (i < j /\ entries'[i].label # NULL
                             /\ entries'[j].label # NULL)
                      => strcasecmp(entries'[i].label, entries'[j].label) <= 0
                /\ \A i, j \in 0..(size - 1) :
                      (i < j /\ playlist_qsort_func(entries'[i], entries'[j]) = 0)
                      => p[i] < p[j]]_vars

\* The same without the stability, for playlists all of whose records have
\* a label.
SortOrdersLabelledRecords ==
    [][(playlist_qsort /\ \A i \in 0..(size - 1) : entries[i].label # NULL)
       => /\ size' = size
          /\ \E p \in IndexPermutations(size) :
                /\ \A j \in 0..(size - 1) : entries'[j] = entries[p[j]]
                /\ \A i, j \in 0..(size - 1) :
                      i < j
                      => strcasecmp(entries'[i].label, entries'[j].label) <= 0]_vars

\* C27: playlist_init for a file that does not exist or cannot be opened
\* makes a playlist of no record, not modified, of the capacity asked for,
\* and reports no error.
MissingFileGivesEmptyStore ==
    [][InitNoFile
       => /\ pc' = "ready"
          /\ size' = 0
          /\ ~modified'
          /\ cap' = cap
          /\ \A i \in 0..(cap - 1) : entries'[i] = NullEntry
          /\ file' = file
          /\ op'.ret]_vars

\* A playlist has been made again for a file that was written before and
\* cannot be opened now.
OpenedNoWrittenFile ==
    /\ op.name = "init"
    /\ op.branch = "nofile"
    /\ pc = "ready"
    /\ file.known
    /\ file.of # <<>>
    /\ size = 0

\* C28: whatever file was loaded and whatever was called since, when
\* playlist_write_file encodes the playlist every record below size has a
\* core path and a core name, and the call ends.
WriteFindsCoreOfEveryRecord ==
    [][\A old_format \in BOOLEAN : \A io \in WriteOutcomes :
          (playlist_write_file(old_format, io) /\ op'.branch \notin
              {"clean", "open_failed", "writer_failed"})
          => /\ \A i \in 0..(size - 1) :
                   entries[i].core_path # NULL /\ entries[i].core_name # NULL
             /\ pc' # "crashed"]_vars

\* C29: playlist_cached owns at most one playlist: after a
\* playlist_init_cached that succeeds the slot holds the playlist just
\* made, one that fails leaves the slot as it was, after
\* playlist_free_cached the slot is empty, playlist_get_cached returns what
\* the slot holds, and no playlist made through the slot stays allocated
\* once the slot holds another.
CachedSlotOwnsItsStores ==
    [][/\ \A newcap \in 1..MaxCap : \A ok \in BOOLEAN :
             playlist_init_cached(newcap, ok)
             => IF ok THEN /\ op'.ret
                           /\ cache'.slot = cache'.made
                           /\ cache'.slot \notin cache.live
                           /\ cache'.slot \in cache'.live
                     ELSE ~op'.ret /\ cache' = cache
       /\ playlist_free_cached
             => cache'.slot = 0 /\ cache.slot \notin cache'.live
       /\ playlist_get_cached
             => cache'.got = cache.slot /\ cache'.slot = cache.slot
       /\ cache'.live \subseteq {cache'.slot}]_vars

\* The same without the last part: what the slot holds after each call.
CachedSlotHoldsTheLast ==
    [][/\ \A newcap \in 1..MaxCap : \A ok \in BOOLEAN :
             playlist_init_cached(newcap, ok)
             => IF ok THEN /\ op'.ret
                           /\ cache'.slot = cache'.made
                           /\ cache'.slot \notin cache.live
                           /\ cache'.slot \in cache'.live
                     ELSE ~op'.ret /\ cache' = cache
       /\ playlist_free_cached
             => cache'.slot = 0 /\ cache.slot \notin cache'.live
       /\ playlist_get_cached
             => cache'.got = cache.slot /\ cache'.slot = cache.slot]_vars

\* The object that is open innermost is an element of an array that is the
\* value of the member items of the top-level object.
InItemsArray(c) ==
    /\ Len(c.stack) = 3
    /\ IsObj(c.stack[1])
    /\ IsItems(c.stack[2])
    /\ IsObj(c.stack[3])

\* The object that is open innermost is an element of an array of the
\* top-level object during which the decoder has in_items set.
InArrayTakenForItems(c) ==
    /\ Len(c.stack) = 3
    /\ IsObj(c.stack[1])
    /\ IsArr(c.stack[2])
    /\ IsObj(c.stack[3])
    /\ c.in_items

\* C30: while the JSON decoder runs, size grows by one at the end of every
\* object that is an element of the items array, and changes at no other
\* event: not at the start of an object, not at the end of an object nested
\* deeper or elsewhere, not when the input ends or fails.
ItemsObjectsCountAtTheirEnd ==
    [][pc = "json"
       => IF JSONEndObjectHandler /\ InItemsArray(ctx)
          THEN size' = size + 1
          ELSE size' = size]_vars

\* The same for the arrays the decoder takes for the items array.
TakenForItemsCountAtTheirEnd ==
    [][pc = "json"
       => IF JSONEndObjectHandler /\ InArrayTakenForItems(ctx)
          THEN size' = size + 1
          ELSE size' = size]_vars

\* A scalar value is reported to the decoder, or passes without a handler.
ScalarValue == JsonOtherValue \/ \E v \in JsonStrings : JSONStringHandler(v)

\* C31: after every scalar value given for a member of a record object,
\* whatever its type, no field is selected, and the member name that
\* follows does not abort the decoding.
SlotClearedAfterEveryValue ==
    [][/\ (pc = "json" /\ InEntry(ctx) /\ Len(ctx.stack) = 3 /\ ctx.key
             /\ ScalarValue)
          => ctx'.current_entry_val = "none"
       /\ (pc = "json" /\ InEntry(ctx) /\ Len(ctx.stack) = 3)
          => \A name \in JsonNames :
                JSONObjectMemberHandler(name) => pc' = "json"]_vars

\* The same for the values that are strings.
SlotClearedAfterEveryString ==
    [][(pc = "json" /\ InEntry(ctx) /\ Len(ctx.stack) = 3 /\ ctx.key)
          => \A v \in JsonStrings :
                JSONStringHandler(v) => ctx'.current_entry_val = "none"]_vars

\* The field a member name of a record stands for, "none" for a name that
\* is not one of the six.
FieldNamed(name) ==
    IF name = PathName THEN "path"
    ELSE IF name = LabelName THEN "label"
    ELSE IF name = CorePathName THEN "core_path"
    ELSE IF name = CoreNameName THEN "core_name"
    ELSE IF name = Crc32Name THEN "crc32"
    ELSE IF name = DbNameName THEN "db_name"
    ELSE "none"

InsideItemsArray(c) == Len(c.stack) >= 2 /\ IsObj(c.stack[1]) /\ IsItems(c.stack[2])

\* C33: while the JSON decoder runs, in_items is set exactly while an array
\* that is the value of a member named items of the top-level object is
\* open, and only the end of an object in such an array makes a record.
InItemsIffInsideItemsArray ==
    [][pc = "json"
       => /\ ctx.in_items = InsideItemsArray(ctx)
          /\ size' # size => InsideItemsArray(ctx)]_vars

NamedBy(e, a) == e.path = Absent(a.path) /\ e.core_path = a.core_path

\* No two records below size have the same path, or both none, and the
\* same core path.
NoTwoOfOneKey(ents, sz) ==
    \A i, j \in 0..(sz - 1) :
        (i # j) => ~(ents[i].path = ents[j].path
                     /\ ents[i].core_path = ents[j].core_path)

\* C36: on a playlist built from empty by pushes alone no two records have
\* the same path and core path; a push that reports success leaves at
\* index 0 the record that is the entry it was given (the path compared as
\* the build compares it), and a push that reports none leaves the
\* playlist as it was.
PushKeepsKeysApartAndTopLast ==
    [][\A a \in PushArgs :
          playlist_push(a)
          => /\ NoTwoOfOneKey(entries', size')
             /\ op'.ret => SameEntry(win32, entries'[0], a)
             /\ ~op'.ret => entries'[0] = entries[0] /\ size' = size]_vars

\* The same with the path compared exactly on every build; fails on a
\* _WIN32 build for a candidate whose path differs in case from the
\* stored one.
PushLeavesExactPathOnTop ==
    [][\A a \in PushArgs :
          (playlist_push(a) /\ op'.ret) => NamedBy(entries'[0], a)]_vars

\* A push has moved to the top a record that shares its path with the
\* record now below it and differs from it in the core path.
BumpedBesideSamePath ==
    /\ op.name = "push"
    /\ op.branch = "bump"
    /\ size = 2
    /\ entries[0].path # NULL
    /\ entries[0].path = entries[1].path
    /\ entries[0].core_path # entries[1].core_path

\* C37: a push whose candidate names a core and is an entry stored at an
\* index i > 0 puts at index 0 the record that was at i, field for field,
\* whatever label, core name, checksum and database name the candidate
\* gives, moves the records above i down by one and keeps the rest and the
\* size.
PushOfKnownKeepsStoredFields ==
    [][\A a \in PushArgs :
          (playlist_push(a) /\ NamesCore(a) /\ Matches(a) # {}
             /\ Lowest(Matches(a)) > 0)
          => LET i == Lowest(Matches(a))
             IN  /\ size' = size
                 /\ entries'[0] = entries[i]
                 /\ \A j \in 1..i : entries'[j] = entries[j - 1]
                 /\ \A j \in (i + 1)..(cap - 1) : entries'[j] = entries[j]]_vars

\* The same for the candidates that give a core name.
PushOfKnownWithNameKeepsStoredFields ==
    [][\A a \in PushArgs :
          (playlist_push(a) /\ GivesBoth(a) /\ Matches(a) # {}
             /\ Lowest(Matches(a)) > 0)
          => LET i == Lowest(Matches(a))
             IN  /\ size' = size
                 /\ entries'[0] = entries[i]
                 /\ \A j \in 1..i : entries'[j] = entries[j - 1]
                 /\ \A j \in (i + 1)..(cap - 1) : entries'[j] = entries[j]]_vars

\* C38: playlist_clear and playlist_qsort leave the modified flag as it is;
\* on a playlist whose flag is false after them playlist_write_file writes
\* nothing and the file keeps what it held.
ClearAndSortLeaveModified ==
    [][/\ (playlist_clear \/ playlist_qsort) => modified' = modified
       /\ \A old_format \in BOOLEAN : \A io \in WriteOutcomes :
             (playlist_write_file(old_format, io) /\ ~modified
                /\ op.name \in {"clear", "sort"})
             => file' = file /\ op'.branch = "clean" /\ ~modified']_vars

\* A playlist loaded from the file it wrote has been cleared and written:
\* nothing was written, the file still holds the records.
ClearedButFileKeepsRecords ==
    /\ op.name = "write"
    /\ op.branch = "clean"
    /\ size = 0
    /\ ~modified
    /\ file.known
    /\ Len(file.of) >= 1

(* ------------------------------------------------------------------ *)
(* C39: every text is freed exactly once                               *)
(* ------------------------------------------------------------------ *)

\* C39: when playlist_free returns, every text strdup returned for a field
\* of an entry has been freed: none is left that no entry below size held
\* and free was never called for.
FreedPlaylistLostNoText == op.name = "free" => ~lost

\* Pushes, clears, sorts and writes alone lose no text.
PushClearSortLoseNothing == ~lost

(* ------------------------------------------------------------------ *)
(* C40: the legacy format gives back what was written                  *)
(* ------------------------------------------------------------------ *)

\* The bytes of a file written chunk by chunk.
ChunkBytes(chunks) == Len(Flatten(chunks))

\* A load has just ended on a file the legacy encoder wrote, of at least
\* ProbeBytes bytes.
LoadedLegacyFile ==
    /\ pc = "ready"
    /\ op.name = "init"
    /\ op.branch # "nofile"
    /\ file.known
    /\ file.codec = "legacy"
    /\ ChunkBytes(file.chunks) >= ProbeBytes

\* The playlist holds the records the file was written from, in their
\* order, absent fields being absent.
HoldsWhatWasWritten ==
    /\ size = Len(file.of)
    /\ \A k \in 1..size : entries[k - 1] = file.of[k]

\* C40: a playlist built by pushes alone, written in the legacy format and
\* loaded from that file (of at least 15 bytes) into a playlist of the same
\* capacity holds the same records in the same order.
LegacyRoundTripGivesSameRecords == LoadedLegacyFile => HoldsWhatWasWritten

\* No text written fills a line buffer, and the file does not start with
\* the bytes of a JSON file.
ShortLinesNoHeader ==
    /\ \A k \in 1..Len(file.chunks) : Len(file.chunks[k]) < BufSize
    /\ ~NewFormat(Probe(file.chunks))

\* The round trip of such a file gives the same records.
LegacyRoundTripOfShortLines ==
    (LoadedLegacyFile /\ ShortLinesNoHeader) => HoldsWhatWasWritten

\* Two records came back from a legacy file, the second without its
\* optional fields.
TwoRecordsCameBack ==
    /\ LoadedLegacyFile
    /\ ShortLinesNoHeader
    /\ size = 2
    /\ entries[1].path = NULL

\* A path of BufSize bytes came back as two lines of its group.
LongPathCameBackInPieces ==
    /\ LoadedLegacyFile
    /\ op.branch = "legacy"
    /\ Len(file.of) = 1
    /\ file.of[1].path = LongPath
    /\ ~HoldsWhatWasWritten

\* A file whose first record reads like the head of a JSON file was given
\* to the JSON decoder and no record came back.
HeaderFileCameBackEmpty ==
    /\ LoadedLegacyFile
    /\ op.branch = "end"
    /\ NewFormat(Probe(file.chunks))
    /\ Len(file.of) >= 1
    /\ size = 0

====
